---- MODULE Spec2Model ----
(***************************************************************************)
(* Model of the code-analysis dashboard front end.                         *)
(*   App.tsx       view state, the WebSocket subscription, debounced send  *)
(*   Results.tsx   calculateGlobalScore                                    *)
(* A JavaScript value that may be undefined is modelled as a set of at     *)
(* most one element: {} is undefined, {v} is the value v.                  *)
(***************************************************************************)
EXTENDS Integers, Sequences, FiniteSets, TLC

\* ---------------------------------------------------------------- bounds
MaxEdits == 2
MaxMessages == 2

\* ------------------------------------------------------ optional values
Undefined == {}
Some(v) == {v}
Get(o) == CHOOSE v \in o : TRUE

\* ------------------------------------------------- WebSocket readyState
CONNECTING == 0
OPEN == 1
CLOSING == 2
CLOSED == 3

\* ------------------------------------------------------------ view state
Pages ==
  {"DASHBOARD", "ABOUT", "HELP", "RESULTS", "TIME_COMPLEXITY_REPORT",
   "SOLID_REPORT", "SPACE_COMPLEXITY_REPORT", "CLEAN_CODE_REPORT",
   "OPTIMIZE_REPORT"}

Languages == {"python", "java"}

InitialCode == "class User:\n    def save(self):\n        pass"

\* the texts the user types into the editor
Edits == {"def f(): pass", "def f(xs): return sorted(xs)"}

\* ----------------------------------------------------- JavaScript values
\* the value of an error field: JSON null or a JSON string
JSNull == [t |-> "null", s |-> ""]
JSString(x) == [t |-> "string", s |-> x]

\* JavaScript truthiness of such a value
Truthy(v) == IF v.t = "null" THEN FALSE ELSE v.s # ""

\* one entry of solid_report
PassEntry == [status |-> "Pass", reason |-> "Ready", suggestion |-> "N/A"]
ViolationEntry ==
  [status |-> "Violation", reason |-> "Concrete dependency detected",
   suggestion |-> "Inject the dependency"]
PassNoSuggestion == [status |-> "Pass", reason |-> "...", suggestion |-> "N/A"]

SolidKeys == <<"S", "O", "L", "I", "D">>

\* a solid_report object: every principle key present or absent
SolidObject(s, o, l, i, d) == [S |-> s, O |-> o, L |-> l, I |-> i, D |-> d]

\* a clean_report object
CleanObject(nq, radon, pylint) ==
  [naming_quality |-> nq, radon |-> radon, pylint |-> pylint]
NamingQuality(score) == [naming_score |-> score]
\* radon.raw_metrics: the two counts the Documentation & Density card reads
RawMetrics(total, comments) ==
  [total_lines_of_code |-> total, comments |-> comments]
RadonWithRaw(mi, raw) == [maintainability_index |-> mi, raw_metrics |-> raw]
Radon(mi) == RadonWithRaw(mi, Undefined)

\* a parsed JSON value as the UI reads it: kind is "object" or "null"; every
\* other field is a property of an object, undefined on null
JSValue(kind, err, tc, sc, ss, ccs, solid, clean) ==
  [kind |-> kind, error |-> err,
   time_complexity |-> tc, space_complexity |-> sc,
   solid_status |-> ss, clean_code_status |-> ccs,
   solid_report |-> solid, clean_report |-> clean,
   total_violations |-> Undefined]

\* the same object with a total_violations property
WithViolations(r, count) == [r EXCEPT !.total_violations = count]

JSObject(err, tc, sc, ss, ccs, solid, clean) ==
  JSValue("object", err, tc, sc, ss, ccs, solid, clean)

NullValue ==
  JSValue("null", Undefined, Undefined, Undefined, Undefined, Undefined,
          Undefined, Undefined)

\* `data &&`: null is falsy, every object truthy
TruthyValue(v) == v.kind # "null"

\* `data.error` as a condition
HasTruthyError(v) == v.error # Undefined /\ Truthy(Get(v.error))

\* the useState initialiser of analysisResult
Placeholder ==
  JSObject(Undefined, Some("O(1)"), Some("O(1)"), Some("Pass"),
           Some("Pending"),
           Some(SolidObject(Some(PassEntry), Undefined, Undefined, Undefined,
                            Undefined)),
           Undefined)

\* ------------------------------------------------------ inbound messages
MsgTruncated == "{\"time_complexity\": \"O(n"
MsgNull == "null"
MsgError == "{\"error\": \"Analysis failed\"}"
MsgErrorNull ==
  "{\"error\": null, \"time_complexity\": \"O(N^1)\", \"space_complexity\": \"O(1)\"}"
MsgSample ==
  "{\"time_complexity\": \"O(n^2)\", \"space_complexity\": \"O(n)\", \"solid_report\": {\"S\": {...}, \"D\": {...}}, \"clean_report\": {\"naming_quality\": {\"naming_score\": 85}, \"radon\": {\"maintainability_index\": 72}}}"

Messages ==
  {MsgTruncated, MsgNull, MsgError, MsgErrorNull, MsgSample}

SampleValue ==
  JSObject(Undefined, Some("O(n^2)"), Some("O(n)"), Undefined, Undefined,
           Some(SolidObject(Some(PassNoSuggestion), Undefined, Undefined,
                            Undefined, Some(ViolationEntry))),
           Some(CleanObject(Some(NamingQuality(Some(85))),
                            Some(Radon(Some(72))), Undefined)))

ErrorNullValue ==
  JSObject(Some(JSNull), Some("O(N^1)"), Some("O(1)"), Undefined, Undefined,
           Undefined, Undefined)

ErrorValue ==
  JSObject(Some(JSString("Analysis failed")), Undefined, Undefined, Undefined,
           Undefined, Undefined, Undefined)

\* JSON.parse: either throws a SyntaxError or returns the parsed value
\* the backend's analysis of a snippet: each snippet has its own payload
AnalysisOf(c) ==
  IF c = "def f(): pass"
    THEN JSObject(Undefined, Some("O(1)"), Some("O(1)"), Undefined, Undefined,
                  Undefined, Undefined)
    ELSE JSObject(Undefined, Some("O(N^1)"), Some("O(n)"), Undefined,
                  Undefined, Undefined, Undefined)

\* the text of the message that carries the analysis of a snippet
MsgAnalysis(c) ==
  IF c = "def f(): pass"
    THEN "{\"time_complexity\": \"O(1)\", \"space_complexity\": \"O(1)\"}"
    ELSE "{\"time_complexity\": \"O(N^1)\", \"space_complexity\": \"O(n)\"}"

JSONParse(text) ==
  CASE text = MsgTruncated -> [threw |-> TRUE, value |-> NullValue]
    [] text \in {MsgAnalysis(c) : c \in Edits} ->
         [threw |-> FALSE,
          value |-> AnalysisOf(CHOOSE c \in Edits : MsgAnalysis(c) = text)]
    [] text = MsgNull -> [threw |-> FALSE, value |-> NullValue]
    [] text = MsgError -> [threw |-> FALSE, value |-> ErrorValue]
    [] text = MsgErrorNull -> [threw |-> FALSE, value |-> ErrorNullValue]
    [] text = MsgSample -> [threw |-> FALSE, value |-> SampleValue]

\* ------------------------------------------------------------- variables
VARIABLES
  currentPage,     \* useState<Page>
  code,            \* useState<string>
  language,        \* useState<'python' | 'java'>
  analysisResult,  \* useState<any>
  mounted,         \* App is mounted (its cleanup has not run)
  sockets,         \* number of WebSocket objects constructed
  readyState,      \* readyState of socketRef.current
  closeCalls,      \* number of ws.close() calls
  timerId,         \* the debounce timer is pending
  lastArgs,        \* argument of the latest debouncedSend call
  sent,            \* messages handed to ws.send, in order
  inLog,           \* event.data of every message event, in order
  uncaught,        \* an exception escaped a handler
  edits,           \* number of handleCodeChange calls
  burst,           \* the edits made since the debounce timer was last idle
  results,         \* the results prop of the Results component
  score,           \* the sub-scores and the value of calculateGlobalScore
  prevTotal,       \* the value of calculateGlobalScore at the previous render
  scoreOp,         \* what the Results component did last
  view,            \* what renderPage() put on screen, or that it threw
  improvements,    \* the improvements state of OptimizeReport
  before,          \* improvements before the last handleRollback call
  rollbackLog      \* the ids handleRollback was called with, in order

appVars ==
  <<currentPage, code, language, analysisResult, mounted, sockets, readyState,
    closeCalls, timerId, lastArgs, sent, inLog, uncaught, edits, burst>>

scoreVars == <<results, score, prevTotal, scoreOp>>

renderVars == <<view>>

optimizeVars == <<improvements, before, rollbackLog>>

vars == <<appVars, scoreVars, renderVars, optimizeVars>>

viewVars == <<currentPage, code, language, analysisResult>>
socketVars == <<sockets, readyState, closeCalls>>
debounceVars == <<timerId, lastArgs, edits, burst>>

\* the state of App after its first render and its mount effect
AppInit ==
  /\ currentPage = "DASHBOARD"
  /\ code = InitialCode
  /\ language = "python"
  /\ analysisResult = Placeholder
  /\ mounted = TRUE
  /\ sockets = 1
  /\ readyState = CONNECTING
  /\ closeCalls = 0
  /\ timerId = FALSE
  /\ lastArgs = InitialCode
  /\ sent = <<>>
  /\ inLog = <<>>
  /\ uncaught = FALSE
  /\ edits = 0
  /\ burst = <<>>

NoScore == [clean |-> 0, solid |-> 0, time |-> 0, space |-> 0, total |-> 0]

\* the Results component is not on screen
ResultsNotRendered ==
  /\ results = Placeholder
  /\ score = NoScore
  /\ prevTotal = 0
  /\ scoreOp = "none"

\* what is on screen: status is "none" before the first render, "ok" or
\* "crashed" after one; via names what caused the render; thrownBy names the
\* function that threw; the other fields are what the current page shows
View(status, via, thrownBy, loading, solidCards, spaceStatus, namingStatus, logicStatus, globalScore, controls) ==
  [status |-> status, via |-> via, thrownBy |-> thrownBy, loading |-> loading,
   solidCards |-> solidCards, spaceStatus |-> spaceStatus,
   namingStatus |-> namingStatus, logicStatus |-> logicStatus,
   globalScore |-> globalScore, controls |-> controls,
   densityStatus |-> "", logicSuggestion |-> "", timeColor |-> "",
   spaceColor |-> "", solidSummary |-> "", overallStatus |-> ""]

NoCards ==
  SolidObject(Undefined, Undefined, Undefined, Undefined, Undefined)

NoView == View("none", "none", "", FALSE, NoCards, "", "", "", 0, {})

\* an entry of the improvements list (title and description are texts
\* nothing reads but the card)
Improvement(id, category, isRolledBack) ==
  [id |-> id, category |-> category, isRolledBack |-> isRolledBack]

initialImprovements ==
  <<Improvement("1", "SOLID Principles", FALSE),
    Improvement("2", "Clean Code", FALSE),
    Improvement("3", "Performance", FALSE),
    Improvement("4", "Type Safety", FALSE)>>

\* useState(initialImprovements), no handleRollback call yet
OptimizeInit ==
  /\ improvements = initialImprovements
  /\ before = initialImprovements
  /\ rollbackLog = <<>>

Init == AppInit /\ ResultsNotRendered /\ view = NoView /\ OptimizeInit

\* --------------------------------------------------------------- effects
\* a socket effect without a dependency array re-runs after every render
EffectDepsOmitted == TRUE

\* the dependency array of the socket effect is []: no re-render re-runs it
EffectDepsChanged == FALSE

\* a cleanup that closes the socket whatever its state
CleanupUnguarded ==
  /\ readyState' = IF readyState \in {CONNECTING, OPEN} THEN CLOSING ELSE readyState
  /\ closeCalls' = closeCalls + 1

\* the cleanup of the socket effect
Cleanup ==
  IF readyState = OPEN
    THEN /\ readyState' = CLOSING
         /\ closeCalls' = closeCalls + 1
    ELSE UNCHANGED <<readyState, closeCalls>>

\* what a re-render of App does to the socket
AfterRender ==
  IF EffectDepsChanged
    THEN /\ sockets' = sockets + 1
         /\ readyState' = CONNECTING
         /\ closeCalls' = IF readyState = OPEN THEN closeCalls + 1 ELSE closeCalls
    ELSE UNCHANGED socketVars

\* ------------------------------------------------------------ operations
\* a navigation that also resets the editor
navigateToResetsCode(page) ==
  /\ mounted
  /\ currentPage' = page
  /\ code' = InitialCode
  /\ AfterRender
  /\ UNCHANGED <<language, analysisResult, mounted, sent, inLog, uncaught>>
  /\ UNCHANGED debounceVars
  /\ UNCHANGED <<scoreVars, renderVars, optimizeVars>>

\* a navigation that is possible only while the socket is open
navigateToWhenOpen(page) ==
  /\ mounted
  /\ readyState = OPEN
  /\ currentPage' = page
  /\ AfterRender
  /\ UNCHANGED <<code, language, analysisResult, mounted, sent, inLog,
                 uncaught>>
  /\ UNCHANGED debounceVars
  /\ UNCHANGED <<scoreVars, renderVars, optimizeVars>>

navigateTo(page) ==
  /\ mounted
  /\ currentPage' = page
  /\ AfterRender
  /\ UNCHANGED <<code, language, analysisResult, mounted, sent, inLog,
                 uncaught>>
  /\ UNCHANGED debounceVars
  /\ UNCHANGED <<scoreVars, renderVars, optimizeVars>>

setLanguage(lang) ==
  /\ mounted
  /\ currentPage = "DASHBOARD"
  /\ language' = lang
  /\ AfterRender
  /\ UNCHANGED <<currentPage, code, analysisResult, mounted, sent, inLog,
                 uncaught>>
  /\ UNCHANGED debounceVars
  /\ UNCHANGED <<scoreVars, renderVars, optimizeVars>>

\* a debounce that keeps the argument of the first call of a burst
debouncedSendKeepsFirst(c) ==
  /\ lastArgs' = IF timerId THEN lastArgs ELSE c
  /\ timerId' = TRUE

\* lodash debounce(func, 500): a call records its argument and (re)starts the
\* wait; nothing is invoked on the leading edge
debouncedSend(c) ==
  /\ lastArgs' = c
  /\ timerId' = TRUE

\* a handler that hands the snippet of the previous render to the debounce
handleCodeChangeSendsOld(newCode) ==
  /\ mounted
  /\ currentPage = "DASHBOARD"
  /\ edits < MaxEdits
  /\ code' = newCode
  /\ debouncedSend(code)
  /\ edits' = edits + 1
  /\ burst' = IF timerId THEN Append(burst, newCode) ELSE <<newCode>>
  /\ AfterRender
  /\ UNCHANGED <<currentPage, language, analysisResult, mounted, sent, inLog,
                 uncaught>>
  /\ UNCHANGED <<scoreVars, renderVars, optimizeVars>>

handleCodeChange(newCode) ==
  /\ mounted
  /\ currentPage = "DASHBOARD"
  /\ edits < MaxEdits
  /\ code' = newCode
  /\ debouncedSend(newCode)
  /\ edits' = edits + 1
  /\ burst' = IF timerId THEN Append(burst, newCode) ELSE <<newCode>>
  /\ AfterRender
  /\ UNCHANGED <<currentPage, language, analysisResult, mounted, sent, inLog,
                 uncaught>>
  /\ UNCHANGED <<scoreVars, renderVars, optimizeVars>>

\* a send that does not look at readyState
SendUnguarded(c) == sent' = Append(sent, [code |-> c])

\* the function handed to debounce
SendIfOpen(c) ==
  IF readyState = OPEN
    THEN sent' = Append(sent, [code |-> c])
    ELSE sent' = sent

\* a wait that ends without invoking the function
TimerFiresWithoutCall ==
  /\ timerId
  /\ timerId' = FALSE
  /\ UNCHANGED <<lastArgs, edits, burst, sent, inLog, uncaught, mounted>>
  /\ UNCHANGED viewVars
  /\ UNCHANGED socketVars
  /\ UNCHANGED <<scoreVars, renderVars, optimizeVars>>

\* the debounce wait elapsed with no further call: trailing-edge invocation
TimerFires ==
  /\ timerId
  /\ timerId' = FALSE
  /\ SendIfOpen(lastArgs)
  /\ UNCHANGED <<lastArgs, edits, burst, inLog, uncaught, mounted>>
  /\ UNCHANGED viewVars
  /\ UNCHANGED socketVars
  /\ UNCHANGED <<scoreVars, renderVars, optimizeVars>>

\* an update that merges the new payload into the held result
Merge(prev, data) ==
  [f \in DOMAIN data |->
     IF f = "kind" THEN data[f]
     ELSE IF data[f] = Undefined THEN prev[f] ELSE data[f]]

setAnalysisResultMerged(data) ==
  IF mounted
    THEN analysisResult' = Merge(analysisResult, data) /\ AfterRender
    ELSE UNCHANGED <<analysisResult, sockets, readyState, closeCalls>>

\* a setter that keeps the first result it was given
setAnalysisResultKeepsFirst(data) ==
  IF mounted
    THEN /\ analysisResult' =
              IF analysisResult = Placeholder THEN data ELSE analysisResult
         /\ AfterRender
    ELSE UNCHANGED <<analysisResult, sockets, readyState, closeCalls>>

\* setAnalysisResult(data); a state update of an unmounted component is a no-op
setAnalysisResult(data) ==
  IF mounted
    THEN analysisResult' = data /\ AfterRender
    ELSE UNCHANGED <<analysisResult, sockets, readyState, closeCalls>>

\* an onmessage that does not look at data.error
onmessageNoErrorCheck(data) ==
  LET parsed == JSONParse(data) IN
  /\ IF parsed.threw
       THEN UNCHANGED <<analysisResult, sockets, readyState, closeCalls>>
       ELSE IF TruthyValue(parsed.value)
              THEN setAnalysisResult(parsed.value)
              ELSE UNCHANGED <<analysisResult, sockets, readyState, closeCalls>>
  /\ uncaught' = uncaught

\* an onmessage that stores null
onmessageNoNullCheck(data) ==
  LET parsed == JSONParse(data) IN
  /\ IF parsed.threw
       THEN UNCHANGED <<analysisResult, sockets, readyState, closeCalls>>
       ELSE IF ~HasTruthyError(parsed.value)
              THEN setAnalysisResult(parsed.value)
              ELSE UNCHANGED <<analysisResult, sockets, readyState, closeCalls>>
  /\ uncaught' = uncaught

\* ws.onmessage
onmessage(data) ==
  LET parsed == JSONParse(data) IN
  /\ IF parsed.threw
       THEN UNCHANGED <<analysisResult, sockets, readyState, closeCalls>>
       ELSE IF TruthyValue(parsed.value) /\ ~HasTruthyError(parsed.value)
              THEN setAnalysisResult(parsed.value)
              ELSE UNCHANGED <<analysisResult, sockets, readyState, closeCalls>>
  /\ uncaught' = uncaught

\* a message event is dispatched on the socket
MessageArrives ==
  /\ readyState \in {OPEN, CLOSING}
  /\ Len(inLog) < MaxMessages
  /\ \E data \in Messages :
       /\ inLog' = Append(inLog, data)
       /\ onmessage(data)
  /\ UNCHANGED <<currentPage, code, language, mounted, sent>>
  /\ UNCHANGED debounceVars
  /\ UNCHANGED <<scoreVars, renderVars, optimizeVars>>

\* a connection with an onopen handler that sends the snippet
SocketOpensSendsSnippet ==
  /\ readyState = CONNECTING
  /\ readyState' = OPEN
  /\ sent' = Append(sent, [code |-> code])
  /\ UNCHANGED <<sockets, closeCalls, mounted, inLog, uncaught>>
  /\ UNCHANGED viewVars
  /\ UNCHANGED debounceVars
  /\ UNCHANGED <<scoreVars, renderVars, optimizeVars>>

\* the connection is established
SocketOpens ==
  /\ readyState = CONNECTING
  /\ readyState' = OPEN
  /\ UNCHANGED <<sockets, closeCalls, mounted, sent, inLog, uncaught>>
  /\ UNCHANGED viewVars
  /\ UNCHANGED debounceVars
  /\ UNCHANGED <<scoreVars, renderVars, optimizeVars>>

\* the connection fails or is closed; no onclose or onerror handler is set
SocketCloses ==
  /\ readyState \in {CONNECTING, OPEN, CLOSING}
  /\ readyState' = CLOSED
  /\ UNCHANGED <<sockets, closeCalls, mounted, sent, inLog, uncaught>>
  /\ UNCHANGED viewVars
  /\ UNCHANGED debounceVars
  /\ UNCHANGED <<scoreVars, renderVars, optimizeVars>>

\* React unmounts App and runs the effect cleanup
Unmount ==
  /\ mounted
  /\ mounted' = FALSE
  /\ Cleanup
  /\ UNCHANGED <<sockets, sent, inLog, uncaught>>
  /\ UNCHANGED viewVars
  /\ UNCHANGED debounceVars
  /\ UNCHANGED <<scoreVars, renderVars, optimizeVars>>

Navigate == \E page \in Pages : navigateTo(page)
SelectLanguage == \E lang \in Languages : setLanguage(lang)
Edit == \E newCode \in Edits : handleCodeChange(newCode)

Next ==
  \/ Navigate
  \/ SelectLanguage
  \/ Edit
  \/ TimerFires
  \/ MessageArrives
  \/ SocketOpens
  \/ SocketCloses
  \/ Unmount

Spec == Init /\ [][Next]_vars

\* lodash debounce arms a setTimeout that nothing in App cancels: a pending
\* wait always ends
\* the steps of the outbound path: none of them depends on what onmessage
\* stores
OutboundNext ==
  \/ Navigate
  \/ SelectLanguage
  \/ Edit
  \/ TimerFires
  \/ SocketOpens
  \/ SocketCloses
  \/ Unmount

LiveSpec == Init /\ [][OutboundNext]_vars /\ WF_vars(TimerFires)

\* a backend that answers every outbound message, in the order sent, with
\* the analysis of that message's code; the socket delivers while it is
\* open or closing
BackendAnswers ==
  /\ readyState \in {OPEN, CLOSING}
  /\ Len(inLog) < Len(sent)
  /\ LET data == MsgAnalysis(sent[Len(inLog) + 1].code) IN
       /\ inLog' = Append(inLog, data)
       /\ onmessage(data)
  /\ UNCHANGED <<currentPage, code, language, mounted, sent>>
  /\ UNCHANGED debounceVars
  /\ UNCHANGED <<scoreVars, renderVars, optimizeVars>>

AnsweredNext ==
  \/ Navigate
  \/ SelectLanguage
  \/ Edit
  \/ TimerFires
  \/ BackendAnswers
  \/ SocketOpens
  \/ SocketCloses
  \/ Unmount

\* App with the answering backend
AnsweredSpec == Init /\ [][AnsweredNext]_vars

\* ============================================================== Results.tsx
\* `x || 0` for an optional number
OrZero(o) == IF o = Undefined THEN 0 ELSE Get(o)

\* clean.naming_quality?.naming_score
NamingScoreOf(clean) ==
  IF clean.naming_quality = Undefined THEN Undefined
  ELSE Get(clean.naming_quality).naming_score

\* clean.radon?.maintainability_index
MaintainabilityOf(clean) ==
  IF clean.radon = Undefined THEN Undefined
  ELSE Get(clean.radon).maintainability_index

\* `analysisData.clean_report || {}`
EmptyClean == CleanObject(Undefined, Undefined, Undefined)
CleanOf(r) == IF r.clean_report = Undefined THEN EmptyClean ELSE Get(r.clean_report)

\* `analysisData.solid_report || {}`
EmptySolid == SolidObject(Undefined, Undefined, Undefined, Undefined, Undefined)
SolidOf(r) == IF r.solid_report = Undefined THEN EmptySolid ELSE Get(r.solid_report)

\* a naming threshold that asks for more than 90
NamingPtsAbove90(namingScore) ==
  IF namingScore > 90 THEN 10 ELSE IF namingScore > 50 THEN 7 ELSE 0

NamingPts(namingScore) ==
  IF namingScore > 80 THEN 10 ELSE IF namingScore > 50 THEN 7 ELSE 0

MiPts(miScore) ==
  IF miScore > 70 THEN 10 ELSE IF miScore > 40 THEN 7 ELSE 0

\* clean.pylint?.length === 0; pylint is modelled by its length
LintPts(pylint) == IF pylint # Undefined /\ Get(pylint) = 0 THEN 10 ELSE 7

DensityPts == 10

CleanTotal(r) ==
  LET clean == CleanOf(r) IN
  NamingPts(OrZero(NamingScoreOf(clean))) + MiPts(OrZero(MaintainabilityOf(clean)))
    + LintPts(clean.pylint) + DensityPts

\* ten points for a passing principle
SolidPointsTen(entry) ==
  IF entry # Undefined /\ Get(entry).status = "Pass" THEN 10 ELSE 0

\* solid[key]?.status === 'Pass' ? 7 : 0
SolidPoints(entry) ==
  IF entry # Undefined /\ Get(entry).status = "Pass" THEN 7 ELSE 0

\* ['S','O','L','I','D'].reduce(...)
RECURSIVE SolidReduce(_, _, _)
SolidReduce(solid, i, acc) ==
  IF i > Len(SolidKeys) THEN acc
  ELSE SolidReduce(solid, i + 1, acc + SolidPoints(solid[SolidKeys[i]]))

SolidScore(r) == SolidReduce(SolidOf(r), 1, 0)

\* a time score without the "O(1)" default for an absent label
TimeScoreNoDefault(r) ==
  IF r.time_complexity \in {Some("O(1)"), Some("O(N^1)")} THEN 15 ELSE 7

TimeScore(r) ==
  LET timeValue ==
        IF r.time_complexity = Undefined \/ r.time_complexity = Some("")
          THEN "O(1)" ELSE Get(r.time_complexity)
  IN IF timeValue = "O(1)" \/ timeValue = "O(N^1)" THEN 15 ELSE 7

SpaceScore(r) == IF r.space_complexity = Some("O(1)") THEN 10 ELSE 7

\* Math.round of a sum of integers
MathRound(n) == n

\* the locals of calculateGlobalScore and the value it returns
ScoreBreakdown(r) ==
  IF ~TruthyValue(r) \/ HasTruthyError(r)
    THEN NoScore
    ELSE [clean |-> CleanTotal(r), solid |-> SolidScore(r),
          time |-> TimeScore(r), space |-> SpaceScore(r),
          total |-> MathRound(CleanTotal(r) + SolidScore(r) + TimeScore(r)
                                + SpaceScore(r))]

calculateGlobalScore(r) == ScoreBreakdown(r).total

\* ------------------------------------------- the inputs of the score checks
NamingScores == {50, 51, 80, 90}
MaintainabilityIndexes == {40, 41, 70, 90}
PylintLengths == {0, 1, 2}
TimeLabels == {"O(1)", "O(log n)", "O(N^1)", "O(n^2)"}
SpaceLabels == {"O(1)", "O(n)", "O(n^2)"}

Optional(S) == {Undefined} \cup {Some(x) : x \in S}

NamingQualities == Optional({NamingQuality(n) : n \in Optional(NamingScores)})
Radons == Optional({Radon(m) : m \in Optional(MaintainabilityIndexes)})

CleanReports ==
  Optional({CleanObject(nq, rd, pl) :
              nq \in NamingQualities, rd \in Radons,
              pl \in Optional(PylintLengths)})

Entries == {Some(PassEntry), Some(ViolationEntry)}

\* every report with all five keys, the empty report, and the reports shaped
\* like the placeholder (S only) and like the documented sample (S and D)
SolidReports ==
  Optional({SolidObject(s, o, l, i, d) :
              s \in Entries, o \in Entries, l \in Entries, i \in Entries,
              d \in Entries}
           \cup {EmptySolid,
                 SolidObject(Some(PassEntry), Undefined, Undefined, Undefined,
                             Undefined),
                 SolidObject(Some(PassEntry), Undefined, Undefined, Undefined,
                             Some(ViolationEntry))})

AnalysisResults ==
  {JSObject(Undefined, tc, sc, Undefined, Undefined, solid, clean) :
     tc \in Optional(TimeLabels), sc \in Optional(SpaceLabels),
     solid \in SolidReports, clean \in CleanReports}
  \cup {NullValue, ErrorValue, ErrorNullValue, Placeholder}

\* ----------------------------------------- improvements of a single input
\* the growth class a complexity label names
GrowthClass(label) ==
  CASE label = "O(1)" -> 0
    [] label = "O(log n)" -> 1
    [] label \in {"O(N^1)", "O(n)"} -> 2
    [] label = "O(n^2)" -> 3

WithClean(r, clean) == [r EXCEPT !.clean_report = Some(clean)]

ImprovedNaming(r) ==
  IF r.clean_report = Undefined \/ NamingScoreOf(CleanOf(r)) = Undefined THEN {}
  ELSE {WithClean(r, [CleanOf(r) EXCEPT !.naming_quality = Some(NamingQuality(Some(n)))]) :
          n \in {m \in NamingScores : m > Get(NamingScoreOf(CleanOf(r)))}}

ImprovedMaintainability(r) ==
  IF r.clean_report = Undefined \/ MaintainabilityOf(CleanOf(r)) = Undefined THEN {}
  ELSE {WithClean(r, [CleanOf(r) EXCEPT !.radon = Some(Radon(Some(n)))]) :
          n \in {m \in MaintainabilityIndexes : m > Get(MaintainabilityOf(CleanOf(r)))}}

ImprovedLint(r) ==
  IF r.clean_report = Undefined \/ CleanOf(r).pylint = Undefined THEN {}
  ELSE {WithClean(r, [CleanOf(r) EXCEPT !.pylint = Some(n)]) :
          n \in {m \in PylintLengths : m < Get(CleanOf(r).pylint)}}

ImprovedSolid(r) ==
  IF r.solid_report = Undefined THEN {}
  ELSE {[r EXCEPT !.solid_report = Some([SolidOf(r) EXCEPT ![k] = Some(PassEntry)])] :
          k \in {key \in DOMAIN SolidOf(r) : SolidOf(r)[key] = Some(ViolationEntry)}}

ImprovedTime(r) ==
  IF r.time_complexity = Undefined THEN {}
  ELSE {[r EXCEPT !.time_complexity = Some(l)] :
          l \in {m \in TimeLabels : GrowthClass(m) < GrowthClass(Get(r.time_complexity))}}

ImprovedSpace(r) ==
  IF r.space_complexity = Undefined THEN {}
  ELSE {[r EXCEPT !.space_complexity = Some(l)] :
          l \in {m \in SpaceLabels : GrowthClass(m) < GrowthClass(Get(r.space_complexity))}}

Improvements(r) ==
  IF r.kind # "object" THEN {}
  ELSE ImprovedNaming(r) \cup ImprovedMaintainability(r) \cup ImprovedLint(r)
         \cup ImprovedSolid(r) \cup ImprovedTime(r) \cup ImprovedSpace(r)

\* ------------------------------------------------- the Results component
\* Results is given some AnalysisResult and has not rendered yet
ScoreInit ==
  /\ AppInit
  /\ results \in AnalysisResults
  /\ score = NoScore
  /\ prevTotal = 0
  /\ scoreOp = "none"
  /\ view = NoView
  /\ OptimizeInit

\* Results renders: globalScore = calculateGlobalScore()
RenderResults ==
  /\ scoreOp = "none"
  /\ score' = ScoreBreakdown(results)
  /\ prevTotal' = prevTotal
  /\ scoreOp' = "render"
  /\ UNCHANGED results
  /\ UNCHANGED <<appVars, renderVars, optimizeVars>>

\* Results renders again with a result that improves one input of the last one
RenderImproved ==
  /\ scoreOp = "render"
  /\ \E r \in Improvements(results) :
       /\ results' = r
       /\ score' = ScoreBreakdown(r)
  /\ prevTotal' = score.total
  /\ scoreOp' = "improve"
  /\ UNCHANGED <<appVars, renderVars, optimizeVars>>

ScoreNext == RenderResults \/ RenderImproved

ScoreSpec == ScoreInit /\ [][ScoreNext]_vars

\* ======================================================== connection adapter
\* a step in which a message event was handled, and that event's data
MessageHandled == Len(inLog') = Len(inLog) + 1
HandledData == inLog'[Len(inLog')]

\* a step in which the debounce timer fired
TimerFired == timerId /\ ~timerId'

\* a step in which the effect cleanup ran
Unmounted == mounted /\ ~mounted'

\* C1 (as stated): a message that is not valid JSON, or whose payload carries
\* an error field, leaves the held AnalysisResult unchanged and does not throw.
C1_AnyErrorFieldRetains ==
  [][MessageHandled =>
       LET parsed == JSONParse(HandledData) IN
       (parsed.threw \/ parsed.value.error # Undefined) =>
         (analysisResult' = analysisResult /\ ~uncaught')]_vars

\* C1 (amended): a message that is not valid JSON, or whose payload carries a
\* truthy error field, leaves the held AnalysisResult unchanged and does not
\* throw.
C1_TruthyErrorRetains ==
  [][MessageHandled =>
       LET parsed == JSONParse(HandledData) IN
       (parsed.threw \/ HasTruthyError(parsed.value)) =>
         (analysisResult' = analysisResult /\ ~uncaught')]_vars

C1_Witness ==
  /\ mounted
  /\ inLog = <<MsgSample, MsgError>>
  /\ analysisResult = SampleValue
  /\ ~uncaught

\* C2: a burst of edits, each made while the debounce wait of the previous one
\* is still running, sends nothing while it lasts and, with the socket open
\* when the wait elapses, sends exactly one message whose code is the last
\* edit of the burst.
C2_DebouncedSend ==
  [][/\ (timerId /\ timerId') => sent' = sent
     /\ (TimerFired /\ readyState = OPEN) =>
          sent' = Append(sent, [code |-> burst[Len(burst)]])]_vars

C2_Witness ==
  /\ ~timerId
  /\ readyState = OPEN
  /\ Len(burst) = 2
  /\ burst[1] # burst[2]
  /\ sent = <<[code |-> burst[2]]>>

\* C3: when the socket is not OPEN as the debounce timer fires, nothing is
\* sent, nothing is thrown and the timer is idle afterwards; with the timer
\* idle nothing is ever sent, so the dropped snippet goes out only after a
\* new edit.
C3_DroppedWhenNotOpen ==
  [][/\ (TimerFired /\ readyState # OPEN) => (sent' = sent /\ ~uncaught')
     /\ ~timerId => sent' = sent]_vars

C3_Witness ==
  /\ edits = 1
  /\ ~timerId
  /\ readyState = OPEN
  /\ sent = <<>>

\* the payload of the last message of log that satisfies Accepted, or the
\* placeholder when there is none
LastAccepted(log, Accepted(_)) ==
  LET accepted == {i \in 1..Len(log) : Accepted(log[i])}
      last == CHOOSE i \in accepted : \A j \in accepted : j <= i
  IN IF accepted = {} THEN Placeholder ELSE JSONParse(log[last]).value

ValidWithoutErrorField(text) ==
  ~JSONParse(text).threw /\ JSONParse(text).value.error = Undefined

ValidTruthyWithoutTruthyError(text) ==
  /\ ~JSONParse(text).threw
  /\ TruthyValue(JSONParse(text).value)
  /\ ~HasTruthyError(JSONParse(text).value)

\* C4 (as stated): the held AnalysisResult is the whole payload of the most
\* recently arrived message that is valid JSON without an error field, or the
\* placeholder when no such message has arrived.
C4_LastValidWithoutErrorField ==
  analysisResult = LastAccepted(inLog, ValidWithoutErrorField)

\* C4 (amended): while App is mounted, the held AnalysisResult is the whole
\* payload of the most recently arrived message that is valid JSON, parses to
\* a truthy value and has no truthy error field, or the placeholder when no
\* such message has arrived.
C4_LastAcceptedWins ==
  mounted => analysisResult = LastAccepted(inLog, ValidTruthyWithoutTruthyError)

C4_Witness ==
  /\ mounted
  /\ inLog = <<MsgSample, MsgErrorNull>>
  /\ analysisResult = ErrorNullValue

\* C5: one WebSocket is created and never another; once readyState is CLOSED
\* it stays CLOSED, nothing is sent and the held AnalysisResult does not
\* change.
C5_OneSocketNoReconnect ==
  /\ sockets = 1
  /\ [][/\ sockets' = 1
        /\ readyState = CLOSED =>
             /\ readyState' = CLOSED
             /\ sent' = sent
             /\ analysisResult' = analysisResult]_vars

C5_Witness ==
  /\ mounted
  /\ sockets = 1
  /\ readyState = CLOSED
  /\ timerId = FALSE
  /\ edits = 2
  /\ Len(sent) = 1

\* C6: the cleanup run on unmount calls close exactly when readyState is
\* OPEN, and close is called nowhere else.
C6_CloseOnlyIfOpen ==
  [][/\ Unmounted =>
          IF readyState = OPEN
            THEN closeCalls' = closeCalls + 1 /\ readyState' = CLOSING
            ELSE closeCalls' = closeCalls /\ readyState' = readyState
     /\ closeCalls' # closeCalls => Unmounted]_vars

C6_Witness ==
  /\ ~mounted
  /\ closeCalls = 1
  /\ readyState = CLOSING

\* the other case of C6: unmounting while the socket is still connecting
C6_WitnessConnecting ==
  /\ ~mounted
  /\ closeCalls = 0
  /\ readyState = OPEN

\* ========================================================== composite score
Rendered == scoreOp # "none"

ExampleResult ==
  JSObject(Undefined, Some("O(1)"), Some("O(1)"), Undefined, Undefined,
           Some(SolidObject(Some(PassEntry), Some(PassEntry), Some(PassEntry),
                            Some(PassEntry), Some(PassEntry))),
           Some(CleanObject(Some(NamingQuality(Some(90))), Some(Radon(Some(90))),
                            Some(0))))

\* C7: for the fixed example (O(1) time and space, five principles Pass,
\* naming_score 90, maintainability_index 90, empty pylint list)
\* calculateGlobalScore returns exactly 100.
C7_ExampleScores100 ==
  (Rendered /\ results = ExampleResult) => score.total = 100

C7_Witness ==
  /\ scoreOp = "render"
  /\ results = ExampleResult
  /\ score.total = 100

\* C8: when one input of a result is improved and nothing else changes,
\* calculateGlobalScore of the improved result is at least that of the
\* original.
C8_Monotonic == scoreOp = "improve" => score.total >= prevTotal

EmptyResult ==
  JSObject(Undefined, Undefined, Undefined, Undefined, Undefined, Undefined,
           Undefined)

\* C9 (as stated): each category sub-score is 0 when the category's input is
\* absent, and a result with all four absent scores 0.
C9_AbsentScoresZero ==
  (Rendered /\ results.kind = "object" /\ ~HasTruthyError(results)) =>
    /\ results.clean_report = Undefined => score.clean = 0
    /\ results.solid_report = Undefined => score.solid = 0
    /\ results.time_complexity = Undefined => score.time = 0
    /\ results.space_complexity = Undefined => score.space = 0
    /\ results = EmptyResult => score.total = 0

\* C9 (amended): with the category's input absent the SOLID sub-score is 0,
\* the clean-code sub-score is 17 (0 naming, 0 maintainability, 7 lint, 10
\* density), the time sub-score is 15 and the space sub-score is 7; a result
\* with all four absent scores 39.
C9_AbsentScores ==
  (Rendered /\ results.kind = "object" /\ ~HasTruthyError(results)) =>
    /\ results.clean_report = Undefined => score.clean = 17
    /\ results.solid_report = Undefined => score.solid = 0
    /\ results.time_complexity = Undefined => score.time = 15
    /\ results.space_complexity = Undefined => score.space = 7
    /\ results = EmptyResult => score.total = 39

C9_Witness ==
  /\ scoreOp = "render"
  /\ results = EmptyResult
  /\ score = [clean |-> 17, solid |-> 0, time |-> 15, space |-> 7, total |-> 39]

\* C10: the clean-code sub-score is at most 40, the SOLID sub-score at most
\* 35, the time sub-score at most 15, the space sub-score at most 10, and the
\* composite score is an integer from 0 to 100.
C10_ScoreInRange ==
  Rendered =>
    /\ score.clean <= 40
    /\ score.solid <= 35
    /\ score.time <= 15
    /\ score.space <= 10
    /\ score.total \in 0..100

C10_Witness ==
  /\ Rendered
  /\ score.clean = 40
  /\ score.solid = 35
  /\ score.time = 15
  /\ score.space = 10

\* ================================================================ rendering
\* a complexity label as the characters String.prototype.includes looks at
Chars(label) ==
  CASE label = "O(1)" -> <<"O", "(", "1", ")">>
    [] label = "O(n)" -> <<"O", "(", "n", ")">>
    [] label = "O(N^1)" -> <<"O", "(", "N", "^", "1", ")">>
    [] label = "O(n^2)" -> <<"O", "(", "n", "^", "2", ")">>
    [] label = "O(2^n)" -> <<"O", "(", "2", "^", "n", ")">>
    [] label = "O(log n)" -> <<"O", "(", "l", "o", "g", " ", "n", ")">>

\* val.includes(sub)
Includes(label, sub) ==
  LET s == Chars(label) IN
  \E i \in 1..(Len(s) - Len(sub) + 1) : SubSeq(s, i, i + Len(sub) - 1) = sub

\* a getStatus that does not look for '2^n'
getStatusNoExponential(val) ==
  IF val = Some("O(1)") THEN [threw |-> FALSE, text |-> "Excellent"]
  ELSE IF val = Undefined THEN [threw |-> TRUE, text |-> ""]
  ELSE IF Includes(Get(val), <<"n", "^", "2">>)
    THEN [threw |-> FALSE, text |-> "Poor"]
  ELSE IF val = Some("O(n)") THEN [threw |-> FALSE, text |-> "Good"]
  ELSE [threw |-> FALSE, text |-> "Review"]

\* SpaceComplexityReport.getStatus: val.includes throws a TypeError when val
\* is undefined
getStatus(val) ==
  IF val = Some("O(1)") THEN [threw |-> FALSE, text |-> "Excellent"]
  ELSE IF val = Undefined THEN [threw |-> TRUE, text |-> ""]
  ELSE IF Includes(Get(val), <<"n", "^", "2">>)
            \/ Includes(Get(val), <<"2", "^", "n">>)
    THEN [threw |-> FALSE, text |-> "Poor"]
  ELSE IF val = Some("O(n)") THEN [threw |-> FALSE, text |-> "Good"]
  ELSE [threw |-> FALSE, text |-> "Review"]

\* Dashboard.getTimeColor: complexity.includes throws a TypeError when
\* complexity is undefined
getTimeColor(complexity) ==
  IF complexity = Undefined THEN [threw |-> TRUE, color |-> ""]
  ELSE IF Includes(Get(complexity), <<"1">>)
            \/ Includes(Get(complexity), <<"l", "o", "g">>)
    THEN [threw |-> FALSE, color |-> "text-accent-secondary"]
  ELSE IF Includes(Get(complexity), <<"n", "^", "2">>)
            \/ Includes(Get(complexity), <<"!">>)
    THEN [threw |-> FALSE, color |-> "text-status-error"]
  ELSE [threw |-> FALSE, color |-> "text-accent-primary"]

\* the navigation the Header offers on every page
HeaderControls == {"DASHBOARD", "ABOUT", "HELP"}

\* the onNavigate targets each page component renders
DashboardControls == {"RESULTS"}

ResultsControls ==
  {"DASHBOARD", "TIME_COMPLEXITY_REPORT", "SPACE_COMPLEXITY_REPORT",
   "SOLID_REPORT", "CLEAN_CODE_REPORT", "OPTIMIZE_REPORT"}

SolidReportControls == {"RESULTS", "CLEAN_CODE_REPORT"}

SpaceReportControls == {"RESULTS", "SOLID_REPORT"}

CleanCodeReportControls == {"RESULTS"}

\* the loading view of CleanCodeReport has its own Back to Results button
CleanLoadingControls == {"RESULTS"}

TimeReportControls == {"DASHBOARD"}

OptimizeReportControls == {"DASHBOARD"}

AboutControls == {"DASHBOARD"}

HelpControls == {"DASHBOARD"}

\* the component renderPage selects for each page
PageControls(page) ==
  CASE page = "DASHBOARD" -> DashboardControls
    [] page = "RESULTS" -> ResultsControls
    [] page = "SOLID_REPORT" -> SolidReportControls
    [] page = "TIME_COMPLEXITY_REPORT" -> TimeReportControls
    [] page = "SPACE_COMPLEXITY_REPORT" -> SpaceReportControls
    [] page = "ABOUT" -> AboutControls
    [] page = "HELP" -> HelpControls
    [] page = "CLEAN_CODE_REPORT" -> CleanCodeReportControls
    [] page = "OPTIMIZE_REPORT" -> OptimizeReportControls

\* App renders the Header above every page
Controls(page) == PageControls(page) \cup HeaderControls

\* a render that threw in fn: React unmounts the tree, nothing is on screen
Crashed(via, fn) ==
  View("crashed", via, fn, FALSE, NoCards, "", "", "", 0, {})

\* a page that shows nothing of the result
StaticView(page, via) ==
  View("ok", via, "", FALSE, NoCards, "", "", "", 0, Controls(page))

DashboardView(r, via) ==
  IF getTimeColor(r.time_complexity).threw
    THEN Crashed(via, "getTimeColor")
    ELSE StaticView("DASHBOARD", via)

\* Results, Time Complexity card: success for the labels 'O(1)' and 'O(N^1)'
TimeCardColor(r) ==
  IF r.time_complexity \in {Some("O(1)"), Some("O(N^1)")}
    THEN "text-status-success" ELSE "text-status-warning"

\* Results, Space Complexity card
SpaceCardColor(r) ==
  IF r.space_complexity = Some("O(1)")
    THEN "text-status-success" ELSE "text-status-warning"

\* Results, SOLID Principles card: total_violations === 0
SolidSummary(r) ==
  IF r.total_violations = Some(0) THEN "All Pass" ELSE "Violations Found"

ResultsView(r, via) ==
  [View("ok", via, "", FALSE, NoCards, "", "", "", calculateGlobalScore(r),
        Controls("RESULTS"))
     EXCEPT !.timeColor = TimeCardColor(r), !.spaceColor = SpaceCardColor(r),
            !.solidSummary = SolidSummary(r)]

\* a card that reads the entry without a default
SolidCardNoDefault(r, key) ==
  IF r.solid_report = Undefined THEN Some(PassEntry)
  ELSE Get(r.solid_report)[key]

\* results.solid_report?.S || { status: 'Pass', reason: 'Ready', suggestion: 'N/A' }
SolidCard(r, key) ==
  IF r.solid_report = Undefined \/ Get(r.solid_report)[key] = Undefined
    THEN Some(PassEntry)
    ELSE Get(r.solid_report)[key]

\* SolidReport, Overall Status: total_violations > 0 is false for undefined
OverallStatus(r) ==
  IF r.total_violations # Undefined /\ Get(r.total_violations) > 0
    THEN "Violations Found" ELSE "No Violations Found"

SolidReportView(r, via) ==
  [View("ok", via, "", FALSE,
        SolidObject(SolidCard(r, "S"), SolidCard(r, "O"), SolidCard(r, "L"),
                    SolidCard(r, "I"), SolidCard(r, "D")),
        "", "", "", 0, Controls("SOLID_REPORT"))
     EXCEPT !.overallStatus = OverallStatus(r)]

SpaceReportView(r, via) ==
  LET statusObj == getStatus(r.space_complexity) IN
  IF statusObj.threw
    THEN Crashed(via, "getStatus")
    ELSE View("ok", via, "", FALSE, NoCards, statusObj.text, "", "", 0,
              Controls("SPACE_COMPLEXITY_REPORT"))

\* a guard that never shows the loading state
CleanLoadingNever(r) == FALSE

\* the guard of CleanCodeReport: !results || !results.clean_report
CleanLoading(r) == ~TruthyValue(r) \/ r.clean_report = Undefined

\* results.clean_report.naming_quality || { naming_score: 100, issues: [] }
CardNamingScore(clean) ==
  IF clean.naming_quality = Undefined THEN Some(100)
  ELSE Get(clean.naming_quality).naming_score

\* a comparison with undefined is false
NamingStatus(namingScore) ==
  IF namingScore # Undefined /\ Get(namingScore) > 85 THEN "Pass"
  ELSE IF namingScore # Undefined /\ Get(namingScore) > 60 THEN "Warning"
  ELSE "Issue"

\* results.clean_report.radon?.maintainability_index ?? 0
CardMi(clean) == OrZero(MaintainabilityOf(clean))

LogicStatus(mi) ==
  IF mi > 70 THEN "Pass" ELSE IF mi > 40 THEN "Warning" ELSE "Issue"

\* the suggestion of the Logical Complexity card
LogicSuggestion(mi) ==
  IF mi < 70 THEN "Simplify nested logic." ELSE "Logic is well-structured."

\* results.clean_report.radon?.raw_metrics || { total_lines_of_code: 0, ... }
CardRaw(clean) ==
  IF clean.radon = Undefined \/ Get(clean.radon).raw_metrics = Undefined
    THEN RawMetrics(0, 0)
    ELSE Get(Get(clean.radon).raw_metrics)

\* the status of the Documentation & Density card
DensityStatus(raw) ==
  IF raw.comments > 0 \/ raw.total_lines_of_code < 10
    THEN "Pass" ELSE "Warning"

CleanCodeReportView(r, via) ==
  IF CleanLoading(r)
    THEN View("ok", via, "", TRUE, NoCards, "", "", "", 0,
              CleanLoadingControls \cup HeaderControls)
  ELSE IF r.clean_report = Undefined
    THEN Crashed(via, "CleanCodeReport")
  ELSE LET clean == Get(r.clean_report) IN
       [View("ok", via, "", FALSE, NoCards, "",
             NamingStatus(CardNamingScore(clean)), LogicStatus(CardMi(clean)),
             0, Controls("CLEAN_CODE_REPORT"))
          EXCEPT !.logicSuggestion = LogicSuggestion(CardMi(clean)),
                 !.densityStatus = DensityStatus(CardRaw(clean))]

\* App.renderPage
renderPage(page, r, via) ==
  CASE page = "DASHBOARD" -> DashboardView(r, via)
    [] page = "RESULTS" -> ResultsView(r, via)
    [] page = "SOLID_REPORT" -> SolidReportView(r, via)
    [] page = "SPACE_COMPLEXITY_REPORT" -> SpaceReportView(r, via)
    [] page = "CLEAN_CODE_REPORT" -> CleanCodeReportView(r, via)
    [] OTHER -> StaticView(page, via)

\* ------------------------------------------------ the results App can hold
HeldTimeLabels == {"O(1)", "O(N^1)", "O(n^2)"}
HeldSpaceLabels == {"O(1)", "O(n)", "O(n^2)", "O(2^n)", "O(log n)"}
CardNamingScores == {50, 51, 61, 81, 86}
CardMaintainabilityIndexes == {40, 41, 70, 71}

HeldSolidReports ==
  Optional({EmptySolid,
            SolidObject(Some(PassEntry), Undefined, Undefined, Undefined,
                        Undefined),
            SolidObject(Some(PassNoSuggestion), Undefined, Undefined,
                        Undefined, Some(ViolationEntry)),
            SolidObject(Some(PassEntry), Some(PassEntry), Some(PassEntry),
                        Some(PassEntry), Some(PassEntry)),
            SolidObject(Some(ViolationEntry), Some(ViolationEntry),
                        Some(ViolationEntry), Some(ViolationEntry),
                        Some(ViolationEntry))})

HeldCleanReports ==
  Optional({CleanObject(nq, rd, pl) :
              nq \in Optional({NamingQuality(n) : n \in Optional(CardNamingScores)}),
              rd \in Optional({Radon(m) : m \in Optional(CardMaintainabilityIndexes)}),
              pl \in Optional({1})})

\* JSON objects without an error field, any subset of the fields absent
HeldResults ==
  {JSObject(Undefined, tc, sc, Undefined, Undefined, solid, clean) :
     tc \in Optional(HeldTimeLabels), sc \in Optional(HeldSpaceLabels),
     solid \in HeldSolidReports, clean \in HeldCleanReports}

\* line and comment counts around the thresholds of the density card
CardRawMetrics ==
  {RawMetrics(total, comments) : total \in {9, 10, 11}, comments \in {0, 1}}

\* results that also carry raw_metrics and total_violations
HeldCardResults ==
  {WithViolations(
     JSObject(Undefined, Some("O(n)"), Some("O(1)"), Undefined, Undefined,
              Undefined,
              Some(CleanObject(Some(NamingQuality(Some(86))),
                               Some(RadonWithRaw(Some(71), raw)), Some(0)))),
     count) :
     raw \in Optional(CardRawMetrics), count \in Optional({0, 1, 2})}

\* the payloads of the messages that arrive while a page is on screen
ArrivingResults == {SampleValue, ErrorNullValue, EmptyResult}

\* --------------------------------------------------------- the pages of App
\* App holds some result on some page and has not rendered yet
PageInit ==
  /\ currentPage \in Pages
  /\ code = InitialCode
  /\ language = "python"
  /\ analysisResult \in HeldResults \cup HeldCardResults
  /\ mounted = TRUE
  /\ sockets = 1
  /\ readyState = CONNECTING
  /\ closeCalls = 0
  /\ timerId = FALSE
  /\ lastArgs = InitialCode
  /\ sent = <<>>
  /\ inLog = <<>>
  /\ uncaught = FALSE
  /\ edits = 0
  /\ burst = <<>>
  /\ ResultsNotRendered
  /\ view = NoView
  /\ OptimizeInit

\* a render that throws is not caught by any error boundary: App is unmounted
Show(v) ==
  /\ view' = v
  /\ uncaught' = (uncaught \/ v.status = "crashed")
  /\ IF v.status = "crashed"
       THEN mounted' = FALSE /\ Cleanup
       ELSE UNCHANGED <<mounted, readyState, closeCalls>>

\* App renders the current page
RenderPage ==
  /\ mounted
  /\ view.status = "none"
  /\ Show(renderPage(currentPage, analysisResult, "mount"))
  /\ UNCHANGED <<currentPage, code, language, analysisResult, sockets, sent,
                 inLog>>
  /\ UNCHANGED debounceVars
  /\ UNCHANGED <<scoreVars, optimizeVars>>

\* the user presses one of the controls on screen: navigateTo and re-render
ClickControl ==
  /\ mounted
  /\ view.status = "ok"
  /\ \E page \in view.controls :
       /\ currentPage' = page
       /\ Show(renderPage(page, analysisResult, "click"))
  /\ UNCHANGED <<code, language, analysisResult, sockets, sent, inLog>>
  /\ UNCHANGED debounceVars
  /\ UNCHANGED <<scoreVars, optimizeVars>>

\* onmessage accepts a payload: setAnalysisResult and re-render
AcceptResult ==
  /\ mounted
  /\ view.status = "ok"
  /\ \E data \in ArrivingResults :
       /\ TruthyValue(data) /\ ~HasTruthyError(data)
       /\ analysisResult' = data
       /\ Show(renderPage(currentPage, data, "message"))
  /\ UNCHANGED <<currentPage, code, language, sockets, sent, inLog>>
  /\ UNCHANGED debounceVars
  /\ UNCHANGED <<scoreVars, optimizeVars>>

PageNext == RenderPage \/ ClickControl \/ AcceptResult

PageSpec == PageInit /\ [][PageNext]_vars

\* ================================================================ claims:
\* rendering with partial results

\* a render has thrown
RenderFailed == view.status = "crashed"

\* C11 (as stated): calculateGlobalScore and getStatus return a value without
\* raising an error for every result with any subset of its fields absent: no
\* render ever fails inside one of the two functions.
C11_DerivationsTotal ==
  view.thrownBy \notin {"calculateGlobalScore", "getStatus"}

\* C12 (as stated): for every page and every result App can hold, rendering
\* the page with the held result does not fail.
C12_RenderNeverFails == ~RenderFailed

\* the principle keys whose entry the held result lacks
AbsentKeys ==
  {key \in {SolidKeys[i] : i \in DOMAIN SolidKeys} :
     analysisResult.solid_report = Undefined
       \/ Get(analysisResult.solid_report)[key] = Undefined}

SolidReportShown == currentPage = "SOLID_REPORT" /\ view.status # "none"

\* C13: when solid_report is absent, or the entry of a principle key is
\* absent, SolidReport renders without failing and the card of each such
\* principle shows status Pass, reason "Ready" and suggestion "N/A".
C13_DefaultCards ==
  SolidReportShown =>
    /\ view.status = "ok"
    /\ \A key \in AbsentKeys : view.solidCards[key] = Some(PassEntry)

C13_Witness ==
  /\ SolidReportShown
  /\ view.status = "ok"
  /\ analysisResult.solid_report # Undefined
  /\ AbsentKeys = {"O", "L", "I"}
  /\ view.solidCards["D"] = Some(ViolationEntry)

\* ================================================================ claims:
\* navigation

\* C14: a navigation changes the page only: the snippet, the selected
\* language and the held result are what they were before it, so a round
\* trip from Dashboard to a report page and back returns to the same snippet
\* and result.
C14_NavigationKeepsState ==
  [][currentPage' # currentPage =>
       /\ code' = code
       /\ language' = language
       /\ analysisResult' = analysisResult]_vars

\* the user typed, a result arrived, and a report page is now current
C14_Witness ==
  /\ mounted
  /\ currentPage = "CLEAN_CODE_REPORT"
  /\ code \in Edits
  /\ analysisResult = SampleValue

\* C15: the page machine starts in Dashboard, and while App is mounted
\* navigateTo(p) is possible for every page p and makes p the current page,
\* whatever the current page, the socket state and the held result are.
C15_UnguardedNavigation ==
  /\ currentPage = "DASHBOARD"
  /\ [](mounted => \A p \in Pages : ENABLED (navigateTo(p) /\ currentPage' = p))

\* a page reached while the socket was already closed
C15_Witness ==
  /\ mounted
  /\ currentPage = "OPTIMIZE_REPORT"
  /\ readyState = CLOSED
  /\ analysisResult = SampleValue

\* the controls on screen when page is rendered with the held result: none
\* when the render throws
RenderedControls(page) == renderPage(page, analysisResult, "click").controls

\* the pages one press away from a page of S
PressFrom(S) == S \cup UNION {RenderedControls(page) : page \in S}

RECURSIVE PressTimes(_, _)
PressTimes(S, n) == IF n = 0 THEN S ELSE PressTimes(PressFrom(S), n - 1)

\* the pages reachable from start through rendered controls
ReachableFrom(start) == PressTimes({start}, Cardinality(Pages))

\* C16 (as stated): no page is terminal: through the controls the pages
\* render, Dashboard is reachable from the current page and every page is
\* reachable from Dashboard.
C16_NoTerminalPage ==
  view.status # "none" =>
    /\ "DASHBOARD" \in ReachableFrom(currentPage)
    /\ ReachableFrom("DASHBOARD") = Pages

CleanCodeReportShown == currentPage = "CLEAN_CODE_REPORT" /\ view.status # "none"

\* C17: CleanCodeReport never fails; it shows the loading placeholder exactly
\* when the held result has no clean_report, the placeholder shows no card
\* and keeps the way back to Results, and as soon as the held result has a
\* clean_report (an accepted message brought it) the cards are rendered.
C17_LoadingPlaceholder ==
  CleanCodeReportShown =>
    /\ view.status = "ok"
    /\ "RESULTS" \in view.controls
    /\ view.loading <=> (analysisResult.clean_report = Undefined)
    /\ view.loading => (view.namingStatus = "" /\ view.logicStatus = "")
    /\ ~view.loading => (view.namingStatus # "" /\ view.logicStatus # "")

\* the user opened the report while the held result had no clean_report
C17_Witness ==
  /\ CleanCodeReportShown
  /\ view.via = "click"
  /\ analysisResult.clean_report = Undefined
  /\ view.loading

SpaceReportShown ==
  currentPage = "SPACE_COMPLEXITY_REPORT" /\ view.status = "ok"

\* the label contains "n^2" or "2^n"
ContainsPoorGrowth(label) ==
  Includes(label, <<"n", "^", "2">>) \/ Includes(label, <<"2", "^", "n">>)

\* C18: for every complexity label getStatus answers one of Excellent, Good,
\* Poor, Review: Excellent iff the label is "O(1)"; otherwise Poor iff it
\* contains "n^2" or "2^n"; otherwise Good iff it is "O(n)"; otherwise Review.
C18_StatusLabels ==
  SpaceReportShown =>
    LET label == Get(analysisResult.space_complexity)
        text == view.spaceStatus
    IN /\ text \in {"Excellent", "Good", "Poor", "Review"}
       /\ (text = "Excellent") <=> (label = "O(1)")
       /\ label # "O(1)" =>
            /\ (text = "Poor") <=> ContainsPoorGrowth(label)
            /\ ~ContainsPoorGrowth(label) =>
                 /\ (text = "Good") <=> (label = "O(n)")
                 /\ label # "O(n)" => text = "Review"

C18_Witness ==
  /\ SpaceReportShown
  /\ analysisResult.space_complexity = Some("O(2^n)")
  /\ view.spaceStatus = "Poor"

\* "We give 10 points for Green, 7 for Yellow": the card status that goes
\* with a number of points
StatusOfPoints(pts) ==
  IF pts = 10 THEN "Pass" ELSE IF pts = 7 THEN "Warning" ELSE "Issue"

\* C20 (as stated): the points calculateGlobalScore awards for naming_score
\* and maintainability_index agree with the card statuses of CleanCodeReport:
\* 10 points iff Pass, 7 points iff Warning, 0 points iff Issue.
C20_PointsMatchCards ==
  (CleanCodeReportShown /\ view.status = "ok" /\ ~view.loading) =>
    LET clean == CleanOf(analysisResult) IN
    /\ view.namingStatus =
         StatusOfPoints(NamingPts(OrZero(NamingScoreOf(clean))))
    /\ view.logicStatus =
         StatusOfPoints(MiPts(OrZero(MaintainabilityOf(clean))))

\* ================================================================ claims:
\* real-time feedback

\* the snippet holds the content c of edit number n, its debounce wait is
\* running and the socket is open
EditPending(c, n) ==
  /\ edits = n
  /\ code = c
  /\ timerId
  /\ readyState = OPEN

\* the wait has ended and the last message sent carries c
SentLast(c) ==
  /\ ~timerId
  /\ sent # <<>>
  /\ sent[Len(sent)].code = c

\* C19: when an edit has occurred, no further edit follows it and the socket
\* is open and stays open, then eventually a message whose code is that
\* edit's content is sent.
C19_EditEventuallySent ==
  \A c \in Edits : \A n \in 1..MaxEdits :
    EditPending(c, n) ~> (SentLast(c) \/ edits > n \/ readyState # OPEN)

\* the second edit of a burst was sent while the socket was open
C19_Witness ==
  /\ edits = 2
  /\ readyState = OPEN
  /\ SentLast(code)
  /\ Len(burst) = 2

\* ================================================================ claims:
\* the cards of the report pages

\* CleanCodeReport shows its cards
CleanCardsShown ==
  CleanCodeReportShown /\ view.status = "ok" /\ ~view.loading

\* C21 (as stated): the Documentation & Density card has status Warning only
\* if total_lines_of_code > 10 and comments = 0; in every other case its
\* status is Pass.
C21_DensityWarning ==
  CleanCardsShown =>
    LET raw == CardRaw(Get(analysisResult.clean_report))
        longUncommented == raw.total_lines_of_code > 10 /\ raw.comments = 0
    IN /\ view.densityStatus = "Warning" => longUncommented
       /\ ~longUncommented => view.densityStatus = "Pass"

\* C27 (as stated): the Logical Complexity card shows "Logic is
\* well-structured." iff its status is Pass and "Simplify nested logic." iff
\* its status is Warning or Issue, for every maintainability_index.
C27_SuggestionMatchesStatus ==
  CleanCardsShown =>
    /\ (view.logicSuggestion = "Logic is well-structured.")
         <=> (view.logicStatus = "Pass")
    /\ (view.logicSuggestion = "Simplify nested logic.")
         <=> (view.logicStatus \in {"Warning", "Issue"})

\* ========================================================= OptimizeReport
MaxRollbacks == 3

\* the ids handleRollback is called with: those of the four cards and one
\* that no improvement has
RollbackIds == {"1", "2", "3", "4", "5"}

\* a rollback that marks the improvement instead of toggling it
RollbackSets(prev, id) ==
  [i \in DOMAIN prev |->
     IF prev[i].id = id THEN [prev[i] EXCEPT !.isRolledBack = TRUE]
     ELSE prev[i]]

\* prev.map(imp => imp.id === id ? { ...imp, isRolledBack: !imp.isRolledBack } : imp)
Rollback(prev, id) ==
  [i \in DOMAIN prev |->
     IF prev[i].id = id
       THEN [prev[i] EXCEPT !.isRolledBack = ~prev[i].isRolledBack]
       ELSE prev[i]]

handleRollback(id) ==
  /\ Len(rollbackLog) < MaxRollbacks
  /\ improvements' = Rollback(improvements, id)
  /\ before' = improvements
  /\ rollbackLog' = Append(rollbackLog, id)
  /\ UNCHANGED <<appVars, scoreVars, renderVars>>

\* App shows the OptimizeReport page, which has just mounted
OptimizePageInit ==
  /\ currentPage = "OPTIMIZE_REPORT"
  /\ code = InitialCode
  /\ language = "python"
  /\ analysisResult = Placeholder
  /\ mounted = TRUE
  /\ sockets = 1
  /\ readyState = CONNECTING
  /\ closeCalls = 0
  /\ timerId = FALSE
  /\ lastArgs = InitialCode
  /\ sent = <<>>
  /\ inLog = <<>>
  /\ uncaught = FALSE
  /\ edits = 0
  /\ burst = <<>>
  /\ ResultsNotRendered
  /\ view = StaticView("OPTIMIZE_REPORT", "click")
  /\ OptimizeInit

PressRollback == \E id \in RollbackIds : handleRollback(id)

OptimizeNext == PressRollback

OptimizeSpec == OptimizePageInit /\ [][OptimizeNext]_vars

\* ================================================================ claims:
\* OptimizeReport

\* the id of the handleRollback call that made this step
CalledId == rollbackLog'[Len(rollbackLog')]

\* C22: handleRollback(id) flips isRolledBack of exactly the improvement with
\* that id and leaves every other improvement, the order and the length of
\* the list unchanged; a second call with the same id restores the list, and
\* an id that no improvement has changes nothing.
C22_RollbackTogglesOne ==
  [][rollbackLog' # rollbackLog =>
       /\ Len(improvements') = Len(improvements)
       /\ \A i \in DOMAIN improvements :
            /\ improvements'[i].id = improvements[i].id
            /\ improvements'[i].category = improvements[i].category
            /\ improvements'[i].isRolledBack =
                 IF improvements[i].id = CalledId
                   THEN ~improvements[i].isRolledBack
                   ELSE improvements[i].isRolledBack
       /\ Cardinality({i \in DOMAIN improvements :
                         improvements'[i] # improvements[i]})
            = IF CalledId \in {"1", "2", "3", "4"} THEN 1 ELSE 0
       /\ (rollbackLog # <<>> /\ rollbackLog[Len(rollbackLog)] = CalledId)
            => improvements' = before]_vars

\* improvement 3 was rolled back and re-applied while improvement 1 stays
\* rolled back
C22_Witness ==
  /\ rollbackLog = <<"1", "3", "3">>
  /\ before[3].isRolledBack
  /\ improvements[1].isRolledBack
  /\ ~improvements[3].isRolledBack

\* ================================================================ claims:
\* outbound messages and the held result

\* a message is sent in this step
MessageSent == sent' # sent

\* C23: every outbound message carries the current snippet: when a message
\* is sent its code field is the snippet App holds at that moment, in every
\* interleaving of edits, timer firings, navigation and inbound messages.
C23_SendsCurrentSnippet ==
  [][MessageSent =>
       /\ sent' = Append(sent, [code |-> code])
       /\ code' = code]_vars

\* two different snippets were sent, the second after navigation and an
\* inbound message
C23_Witness ==
  /\ Len(sent) = 2
  /\ sent[1].code # sent[2].code
  /\ sent[2].code = code
  /\ currentPage = "RESULTS"
  /\ inLog # <<>>

\* C24: in every reachable state the held result is a non-null value without
\* a truthy error field, so calculateGlobalScore never takes its zero-score
\* branch for a result App holds.
C24_HeldResultUsable ==
  TruthyValue(analysisResult) /\ ~HasTruthyError(analysisResult)

\* null and an error payload arrived and the placeholder is still held
C24_Witness ==
  /\ inLog = <<MsgNull, MsgError>>
  /\ analysisResult = Placeholder

\* ================================================================ claims:
\* the Results page against the score and the report pages

ResultsShown == currentPage = "RESULTS" /\ view.status = "ok"

\* C25 (as stated): on the Results page the Time Complexity card is in the
\* success colour iff calculateGlobalScore awards the full 15 time points,
\* also when time_complexity is absent; the Space Complexity card is in the
\* success colour iff the full 10 space points are awarded.
C25_CardColourMatchesPoints ==
  ResultsShown =>
    /\ (view.timeColor = "text-status-success")
         <=> (ScoreBreakdown(analysisResult).time = 15)
    /\ (view.spaceColor = "text-status-success")
         <=> (ScoreBreakdown(analysisResult).space = 10)

\* C26 (as stated): for every result, also one without a total_violations
\* field, the SOLID summary of Results and the Overall Status of SolidReport
\* agree: "All Pass" exactly when "No Violations Found".
C26_SolidSummariesAgree ==
  /\ ResultsShown =>
       ((view.solidSummary = "All Pass")
          <=> (OverallStatus(analysisResult) = "No Violations Found"))
  /\ (SolidReportShown /\ view.status = "ok") =>
       ((view.overallStatus = "No Violations Found")
          <=> (SolidSummary(analysisResult) = "All Pass"))

\* C29 (as stated): after App is unmounted no outbound message is ever sent
\* and the held result is never updated again, in every interleaving of the
\* unmount with a still-connecting socket, a pending debounce timer and late
\* inbound messages.
C29_QuietAfterUnmount ==
  [][~mounted => (sent' = sent /\ analysisResult' = analysisResult)]_vars

\* C30: outbound messages are caused only by edits: a message is sent only
\* by the trailing-edge invocation of the debounce that an edit armed, never
\* by mounting, the socket opening, navigation, a language change or an
\* inbound message; nothing is sent before the first edit and the number of
\* messages sent never exceeds the number of edits.
C30_SendsOnlyAfterEdits ==
  /\ sent = <<>>
  /\ [](Len(sent) <= edits)
  /\ [][MessageSent => (timerId /\ ~timerId' /\ edits > 0)]_vars

\* a burst of two edits, a language change, navigation, the socket opening
\* and an inbound message have produced one message
C30_Witness ==
  /\ edits = 2
  /\ Len(sent) = 1
  /\ language = "java"
  /\ currentPage = "HELP"
  /\ inLog # <<>>
  /\ ~timerId

\* ================================================================ claims:
\* the result beside the snippet

\* a message was sent, is not answered yet and can still be delivered
InFlight == Len(inLog) < Len(sent) /\ readyState # CLOSED

\* no debounce wait is running and no message is in flight
Quiescent == ~timerId /\ ~InFlight

\* C28 (as stated): with a backend that answers each outbound message in
\* order with the analysis of its code, whenever the system is quiescent and
\* at least one edit has occurred the held result is the analysis of the
\* current snippet.
C28_QuiescentShowsCurrent ==
  (Quiescent /\ edits > 0) => analysisResult = AnalysisOf(code)

\* the message for the current snippet was sent and every message sent has
\* been answered
CurrentSnippetAnswered ==
  /\ sent # <<>>
  /\ sent[Len(sent)].code = code
  /\ Len(inLog) = Len(sent)

\* C28 (amended): while App is mounted, no debounce wait is running and the
\* message carrying the current snippet was sent and answered, the held
\* result is the analysis of the current snippet.
C28_AnsweredShowsCurrent ==
  (mounted /\ ~timerId /\ CurrentSnippetAnswered) =>
    analysisResult = AnalysisOf(code)

\* two snippets were sent and answered one after the other
C28_Witness ==
  /\ mounted
  /\ ~timerId
  /\ CurrentSnippetAnswered
  /\ Len(sent) = 2
  /\ sent[1].code # sent[2].code
  /\ analysisResult = AnalysisOf(code)

====
